---- MODULE Spec2Model ----
(***************************************************************************)
(* The video transcoding pipeline of ViewmaXX.                             *)
(*                                                                         *)
(* Two implementations live in the repository:                             *)
(*   - services/videoProcessor.ts: the queue worker.  processVideoQueue    *)
(*     pops a job and runs processVideo(job), which transcodes every       *)
(*     quality of VIDEO_QUALITIES in a loop with a try/catch per quality.  *)
(*   - services/videoProcessing (the second module held in socket.ts,      *)
(*     imported by the upload route): processVideo(videoId, s3Key) and the *)
(*     exported transcodeVideo(inputPath, outputDir, cb).  Its names carry *)
(*     the prefix Alt_ here, its program counters the prefix "alt_"/"tv_". *)
(*                                                                         *)
(* One run of the model is one call: entry says which function is called.  *)
(* Every await of the code is one step; an external call (catalog, ffmpeg, *)
(* object store, search index, file system) either returns or throws, and  *)
(* a run has at most MaxFaults throwing calls.                             *)
(*                                                                         *)
(* Specifications:                                                         *)
(*   Spec          one call of processVideo or transcodeVideo              *)
(*   HangSpec      the same, with encoders that may never finish, under    *)
(*                 weak fairness                                           *)
(*   WorkerSpec    processVideoQueue under its timer, addVideoToQueue,     *)
(*                 and processVideo followed through its catalog writes    *)
(*   PublisherSpec uploadToS3 (both functions) called on its own           *)
(*   TimerSpec     WorkerSpec with the timer firing for ever, under        *)
(*                 fairness of the timer, the awaits and the pops          *)
(*   ThumbnailSpec generateThumbnail (both functions) called on its own    *)
(*   SettlingSpec  Spec under weak fairness: every await settles           *)
(***************************************************************************)
EXTENDS Integers, Sequences, FiniteSets, TLC

\* ------------------------------------------------------------------ bounds

\* At most this many external calls throw (or return "no row") in one run.
MaxFaults == 2

\* The heights ffprobe reports for the source (metadata.streams[0].height):
\* below the lowest tier, on a tier, between tiers, above the highest tier.
SourceHeights == {100, 144, 200, 400, 500, 720, 1080, 2160, 3000}

\* ------------------------------------------------------- program constants

\* videoProcessor.ts: VIDEO_QUALITIES (bitrate 'Nk' is kept as N).
VIDEO_QUALITIES ==
  << [name |-> "144p",  width |-> 256,  height |-> 144,  bitrate |-> 200],
     [name |-> "360p",  width |-> 640,  height |-> 360,  bitrate |-> 800],
     [name |-> "480p",  width |-> 854,  height |-> 480,  bitrate |-> 1200],
     [name |-> "720p",  width |-> 1280, height |-> 720,  bitrate |-> 2500],
     [name |-> "1080p", width |-> 1920, height |-> 1080, bitrate |-> 4500],
     [name |-> "1440p", width |-> 2560, height |-> 1440, bitrate |-> 8000],
     [name |-> "2160p", width |-> 3840, height |-> 2160, bitrate |-> 15000] >>

\* videoProcessing (socket.ts): VIDEO_QUALITIES.
Alt_VIDEO_QUALITIES ==
  << [name |-> "144p",  height |-> 144,  bitrate |-> 95],
     [name |-> "240p",  height |-> 240,  bitrate |-> 150],
     [name |-> "360p",  height |-> 360,  bitrate |-> 276],
     [name |-> "480p",  height |-> 480,  bitrate |-> 750],
     [name |-> "720p",  height |-> 720,  bitrate |-> 2500],
     [name |-> "1080p", height |-> 1080, bitrate |-> 4500],
     [name |-> "1440p", height |-> 1440, bitrate |-> 9000],
     [name |-> "2160p", height |-> 2160, bitrate |-> 20000] >>

\* ------------------------------------------------------------- pure parts

\* Local scratch files and object-store keys.
ThumbnailFile == <<"thumbnail", "jpg">>
MasterFile == <<"master", "m3u8">>
Mp4File(n) == <<n, "mp4">>
HlsFile(n) == <<n, "m3u8">>
\* generateHLS / transcodeVideo: -hls_segment_filename `${name}_%03d.ts`
SegmentFile(n) == <<n, "ts">>

ThumbnailKey == <<"thumbnails", "thumbnail", "jpg">>
MasterKey == <<"videos", "master", "m3u8">>
Mp4Key(n) == <<"videos", n, "mp4">>
HlsKey(n) == <<"videos", n, "m3u8">>

\* Mutant of SkipQuality: the comparison reversed.
SkipQuality_Reversed(h, q) == q.height < h

\* processVideo, line 106: `if (metadata.streams[0].height < quality.height) continue`
SkipQuality(h, q) == h < q.height

\* transcodeVideo (socket.ts), line 351: VIDEO_QUALITIES.filter(q => q.height <= inputHeight)
Alt_applicableQualities(h) ==
  SelectSeq(Alt_VIDEO_QUALITIES, LAMBDA q : q.height <= h)

\* generateMasterHLS: one #EXT-X-STREAM-INF entry per quality handed in, in the
\* order handed in: BANDWIDTH=parseInt(bitrate)*1000, RESOLUTION=WxH, `${name}.m3u8`.
StreamInf(q) ==
  [bandwidth |-> q.bitrate * 1000, width |-> q.width, height |-> q.height,
   ref |-> HlsFile(q.name)]

generateMasterHLS(qualities) ==
  [i \in 1..Len(qualities) |-> StreamInf(qualities[i])]

\* Mutant of ProcessedQualities: the filter dropped, every quality is listed.
ProcessedQualities_Unfiltered(pf) == VIDEO_QUALITIES

\* Mutant of ProcessedQualities: every quality up to the highest processed
\* one is listed, whether or not its own uploads returned.
ProcessedQualities_UpToHighest(pf) ==
  SelectSeq(VIDEO_QUALITIES,
            LAMBDA q : \E i \in 1..Len(VIDEO_QUALITIES) :
                         /\ VIDEO_QUALITIES[i].name \in pf
                         /\ q.height <= VIDEO_QUALITIES[i].height)

\* processVideo, line 138: VIDEO_QUALITIES.filter(q => processedFiles[q.name])
ProcessedQualities(pf) ==
  SelectSeq(VIDEO_QUALITIES, LAMBDA q : q.name \in pf)

\* transcodeVideo (socket.ts), line 400: Math.round(quality.height * 16/9)
Round16by9(h) == (h * 32 + 9) \div 18

\* transcodeVideo (socket.ts), lines 399-402: the manifest lines of one quality.
Alt_StreamInf(q) ==
  [bandwidth |-> q.bitrate * 1000, width |-> Round16by9(q.height),
   height |-> q.height, ref |-> HlsFile(q.name)]

\* ------------------------------------------------------------------ state

VARIABLES
  entry,           \* which function this run calls
  pc,              \* the await the call is at
  height,          \* metadata.streams[0].height of the source
  faults,          \* external calls that threw so far
  error,           \* the error the outer catch block holds (the step that threw)
  qi,              \* index of the quality the loop is at
  told,            \* statuses handed to prisma.video.update, in call order
  written,         \* statuses the catalog stored, in order
  record,          \* the derived fields stored with PUBLISHED
  notifs,          \* notifications created, in order
  workDir,         \* files in the job's output / temp directory
  s3,              \* keys uploaded to the object store
  attempted,       \* names of the qualities whose encode was started
  processedFiles,  \* keys of processedFiles (quality names)
  hlsPlaylists,    \* hlsPlaylists, in push order
  qualities,       \* transcodeVideo (socket.ts): qualities[].resolution
  manifestLines,   \* transcodeVideo (socket.ts): stream entries collected
  master,          \* content of master.m3u8 once written
  \* the worker loop (processVideoQueue under its timer)
  queue,           \* the redis list 'video-processing-queue', head first
  adds,            \* addVideoToQueue calls made so far (job n is the n-th call)
  ticks,           \* processVideoQueue invocations started so far
  inv,             \* per invocation: where it is and the job it popped
  status,          \* per job: the status the catalog holds for its video
  dispatched,      \* jobs handed to processVideo, in call order
  \* the artifact publisher (uploadToS3) called on its own
  files,           \* local files: path -> bytes, or absent
  objects,         \* the bucket: key -> object, or absent
  calls,           \* the uploadToS3 calls completed so far, in order
  \* the thumbnail generator (generateThumbnail) called on its own
  duration,        \* format.duration of the source in seconds, or unknown
  shot             \* the screenshot request made: who made it and its offset

jobVars == << entry, pc, height, faults, error, qi, told, written, record, notifs,
              workDir, s3, attempted, processedFiles, hlsPlaylists, qualities,
              manifestLines, master >>
poolVars == << queue, adds, ticks, inv, status, dispatched >>
storeVars == << files, objects, calls >>
shotVars == << duration, shot >>

vars == << jobVars, poolVars, storeVars, shotVars >>

NoRecord == [status |-> "none"]
NoManifest == << [none |-> TRUE] >>

Entries == {"videoProcessor", "videoProcessing", "transcodeVideo"}

FirstPc(e) ==
  CASE e = "videoProcessor"  -> "updateProcessing"
    [] e = "videoProcessing" -> "alt_updateProcessing"
    [] e = "transcodeVideo"  -> "tv_getVideoMetadata"

\* The worker loop has not been started and nothing is queued.
NoPool ==
  /\ queue = << >>
  /\ adds = 0
  /\ ticks = 0
  /\ inv = << >>
  /\ status = << >>
  /\ dispatched = << >>

\* No file, no object, no call of the publisher on its own.
NoStore ==
  /\ files = << >>
  /\ objects = << >>
  /\ calls = << >>

\* generateThumbnail is not called on its own.
NoShot == [by |-> "none"]
NoThumbnail ==
  /\ duration = [seconds |-> 0]
  /\ shot = NoShot

\* One call of processVideo or transcodeVideo is about to start.
Init ==
  /\ NoPool
  /\ NoStore
  /\ NoThumbnail
  /\ entry \in Entries
  /\ pc = FirstPc(entry)
  /\ height \in SourceHeights
  /\ faults = 0
  /\ error = "none"
  /\ qi = 1
  /\ told = << >>
  /\ written = << >>
  /\ record = NoRecord
  /\ notifs = << >>
  /\ workDir = {}
  /\ s3 = {}
  /\ attempted = << >>
  /\ processedFiles = {}
  /\ hlsPlaylists = << >>
  /\ qualities = << >>
  /\ manifestLines = << >>
  /\ master = NoManifest

\* An external call returns ...
Returns == faults' = faults /\ error' = error
\* ... or throws, inside the per-quality try or inside a catch block ...
Throws == faults < MaxFaults /\ faults' = faults + 1 /\ error' = error

\* --------------------------------------- videoProcessor.ts: processVideo

\* Mutant of ThrowTo: a throw of the thumbnail step is swallowed like a
\* rendition's and the job goes on to the loop.
ThrowTo_ThumbnailCaughtInLoop(step) ==
  IF step \in {"generateThumbnail", "transcodeVideo", "generateHLS", "uploadMp4",
               "uploadHls", "unlinkMp4", "unlinkHls"}
  THEN "loop" ELSE "catch"

\* Mutant of ThrowTo: a throw of the master manifest's upload is swallowed and
\* the job goes on to the PUBLISHED update.
ThrowTo_MasterUploadSwallowed(step) ==
  IF step \in {"transcodeVideo", "generateHLS", "uploadMp4", "uploadHls",
               "unlinkMp4", "unlinkHls"}
  THEN "loop"
  ELSE IF step = "uploadMaster" THEN "updatePublished" ELSE "catch"

\* Mutant of ThrowTo: a throw of the thumbnail's upload is swallowed and the
\* job goes on to the loop.
ThrowTo_ThumbnailUploadSwallowed(step) ==
  IF step \in {"uploadThumbnail", "transcodeVideo", "generateHLS", "uploadMp4",
               "uploadHls", "unlinkMp4", "unlinkHls"}
  THEN "loop" ELSE "catch"

\* The try blocks of processVideo: a throw of a step of the per-quality try
\* (lines 104-133) is logged and the loop goes on; a throw of any other step
\* of the outer try (lines 75-203) lands in the catch block at line 203.
ThrowTo(step) ==
  IF step \in {"transcodeVideo", "generateHLS", "uploadMp4", "uploadHls",
               "unlinkMp4", "unlinkHls"}
  THEN "loop" ELSE "catch"

\* ... or throws inside the outer try, outside the per-quality try.
Thrown(step) ==
  /\ faults < MaxFaults
  /\ faults' = faults + 1
  /\ error' = step
  /\ pc' = ThrowTo(step)

\* lines 79-82: prisma.video.update({status: 'PROCESSING'})
UpdateProcessing ==
  /\ pc = "updateProcessing"
  /\ told' = Append(told, "PROCESSING")
  /\ \/ /\ Returns
        /\ written' = Append(written, "PROCESSING")
        /\ pc' = "getVideoMetadata"
     \/ /\ Thrown("updateProcessing")
        /\ UNCHANGED written
  /\ UNCHANGED << shotVars, poolVars, storeVars, entry, height, qi, record, notifs, workDir, s3, attempted,
                  processedFiles, hlsPlaylists, qualities, manifestLines, master >>

\* lines 85-86: getVideoMetadata(inputPath)
GetVideoMetadata ==
  /\ pc = "getVideoMetadata"
  /\ \/ Returns /\ pc' = "mkdir"
     \/ Thrown("getVideoMetadata")
  /\ UNCHANGED << shotVars, poolVars, storeVars, entry, height, qi, told, written, record, notifs, workDir, s3,
                  attempted, processedFiles, hlsPlaylists, qualities,
                  manifestLines, master >>

\* lines 89-90: mkdir(outputDir, {recursive: true})
Mkdir ==
  /\ pc = "mkdir"
  /\ \/ Returns /\ pc' = "generateThumbnail"
     \/ Thrown("mkdir")
  /\ UNCHANGED << shotVars, poolVars, storeVars, entry, height, qi, told, written, record, notifs, workDir, s3,
                  attempted, processedFiles, hlsPlaylists, qualities,
                  manifestLines, master >>

\* lines 93-94: generateThumbnail(inputPath, thumbnailPath)
GenerateThumbnail ==
  /\ pc = "generateThumbnail"
  /\ \/ /\ Returns
        /\ workDir' = workDir \cup {ThumbnailFile}
        /\ pc' = "uploadThumbnail"
     \/ /\ Thrown("generateThumbnail")
        /\ UNCHANGED workDir
  /\ UNCHANGED << shotVars, poolVars, storeVars, entry, height, qi, told, written, record, notifs, s3,
                  attempted, processedFiles, hlsPlaylists, qualities,
                  manifestLines, master >>

\* line 97 with uploadToS3 (lines 301-318): the local file is read, not removed.
UploadThumbnail ==
  /\ pc = "uploadThumbnail"
  /\ \/ /\ Returns
        /\ s3' = s3 \cup {ThumbnailKey}
        /\ pc' = "loop"
     \/ /\ Thrown("uploadThumbnail")
        /\ UNCHANGED s3
  /\ UNCHANGED << shotVars, poolVars, storeVars, entry, height, qi, told, written, record, notifs, workDir,
                  attempted, processedFiles, hlsPlaylists, qualities,
                  manifestLines, master >>

\* lines 103-108: the quality is above the source: continue.
NextQuality ==
  /\ pc = "loop"
  /\ qi <= Len(VIDEO_QUALITIES)
  /\ SkipQuality(height, VIDEO_QUALITIES[qi])
  /\ qi' = qi + 1
  /\ UNCHANGED << shotVars, poolVars, storeVars, entry, pc, height, faults, error, told, written, record, notifs,
                  workDir, s3, attempted, processedFiles, hlsPlaylists,
                  qualities, manifestLines, master >>

\* lines 110-114 with transcodeVideo (254-271); a throw is caught at line 131
\* and the loop goes on.  A failed ffmpeg run may leave its output behind.
TranscodeVideo ==
  /\ pc = "loop"
  /\ qi <= Len(VIDEO_QUALITIES)
  /\ ~SkipQuality(height, VIDEO_QUALITIES[qi])
  /\ LET n == VIDEO_QUALITIES[qi].name IN
     /\ attempted' = Append(attempted, n)
     /\ \/ /\ Returns
           /\ workDir' = workDir \cup {Mp4File(n)}
           /\ pc' = "generateHLS"
           /\ UNCHANGED qi
        \/ /\ Throws
           /\ \E partial \in BOOLEAN :
                workDir' = IF partial THEN workDir \cup {Mp4File(n)} ELSE workDir
           /\ qi' = qi + 1
           /\ pc' = ThrowTo("transcodeVideo")
  /\ UNCHANGED << shotVars, poolVars, storeVars, entry, height, told, written, record, notifs, s3,
                  processedFiles, hlsPlaylists, qualities, manifestLines, master >>

\* line 117 with generateHLS (273-286): playlist and numbered segments.
GenerateHLS ==
  /\ pc = "generateHLS"
  /\ LET n == VIDEO_QUALITIES[qi].name IN
     \/ /\ Returns
        /\ workDir' = workDir \cup {HlsFile(n), SegmentFile(n)}
        /\ pc' = "uploadMp4"
        /\ UNCHANGED qi
     \/ /\ Throws
        /\ \E partial \in BOOLEAN :
             workDir' = IF partial THEN workDir \cup {HlsFile(n), SegmentFile(n)}
                        ELSE workDir
        /\ qi' = qi + 1
        /\ pc' = ThrowTo("generateHLS")
  /\ UNCHANGED << shotVars, poolVars, storeVars, entry, height, told, written, record, notifs, s3, attempted,
                  processedFiles, hlsPlaylists, qualities, manifestLines, master >>

\* line 120: uploadToS3(outputPath, `videos/${videoId}/${quality.name}.mp4`)
UploadMp4 ==
  /\ pc = "uploadMp4"
  /\ LET n == VIDEO_QUALITIES[qi].name IN
     \/ /\ Returns
        /\ s3' = s3 \cup {Mp4Key(n)}
        /\ pc' = "uploadHls"
        /\ UNCHANGED qi
     \/ /\ Throws
        /\ qi' = qi + 1
        /\ pc' = ThrowTo("uploadMp4")
        /\ UNCHANGED s3
  /\ UNCHANGED << shotVars, poolVars, storeVars, entry, height, told, written, record, notifs, workDir,
                  attempted, processedFiles, hlsPlaylists, qualities,
                  manifestLines, master >>

\* lines 121-124: uploadToS3(hlsPath, ...), processedFiles[name] = mp4Url,
\* hlsPlaylists.push(hlsUrl).
UploadHls ==
  /\ pc = "uploadHls"
  /\ LET n == VIDEO_QUALITIES[qi].name IN
     \/ /\ Returns
        /\ s3' = s3 \cup {HlsKey(n)}
        /\ processedFiles' = processedFiles \cup {n}
        /\ hlsPlaylists' = Append(hlsPlaylists, HlsKey(n))
        /\ pc' = "unlinkMp4"
        /\ UNCHANGED qi
     \/ /\ Throws
        /\ qi' = qi + 1
        /\ pc' = ThrowTo("uploadHls")
        /\ UNCHANGED << s3, processedFiles, hlsPlaylists >>
  /\ UNCHANGED << shotVars, poolVars, storeVars, entry, height, told, written, record, notifs, workDir,
                  attempted, qualities, manifestLines, master >>

\* line 127: unlink(outputPath)
UnlinkMp4 ==
  /\ pc = "unlinkMp4"
  /\ LET n == VIDEO_QUALITIES[qi].name IN
     \/ /\ Returns
        /\ workDir' = workDir \ {Mp4File(n)}
        /\ pc' = "unlinkHls"
        /\ UNCHANGED qi
     \/ /\ Throws
        /\ qi' = qi + 1
        /\ pc' = ThrowTo("unlinkMp4")
        /\ UNCHANGED workDir
  /\ UNCHANGED << shotVars, poolVars, storeVars, entry, height, told, written, record, notifs, s3, attempted,
                  processedFiles, hlsPlaylists, qualities, manifestLines, master >>

\* lines 128-130: unlink(hlsPath); the iteration ends.
UnlinkHls ==
  /\ pc = "unlinkHls"
  /\ LET n == VIDEO_QUALITIES[qi].name IN
     \/ /\ Returns
        /\ workDir' = workDir \ {HlsFile(n)}
        /\ pc' = "loop"
     \/ /\ Throws
        /\ pc' = ThrowTo("unlinkHls")
        /\ UNCHANGED workDir
  /\ qi' = qi + 1
  /\ UNCHANGED << shotVars, poolVars, storeVars, entry, height, told, written, record, notifs, s3, attempted,
                  processedFiles, hlsPlaylists, qualities, manifestLines, master >>

\* lines 137-138: after the loop, generateMasterHLS (writeFileSync) over the
\* processed qualities.
GenerateMasterHLS ==
  /\ pc = "loop"
  /\ qi > Len(VIDEO_QUALITIES)
  /\ \/ /\ Returns
        /\ master' = generateMasterHLS(ProcessedQualities(processedFiles))
        /\ workDir' = workDir \cup {MasterFile}
        /\ pc' = "uploadMaster"
     \/ /\ Thrown("generateMasterHLS")
        /\ UNCHANGED << master, workDir >>
  /\ UNCHANGED << shotVars, poolVars, storeVars, entry, height, qi, told, written, record, notifs, s3,
                  attempted, processedFiles, hlsPlaylists, qualities,
                  manifestLines >>

\* line 139: uploadToS3(masterPlaylistPath, `videos/${videoId}/master.m3u8`)
UploadMaster ==
  /\ pc = "uploadMaster"
  /\ \/ /\ Returns
        /\ s3' = s3 \cup {MasterKey}
        /\ pc' = "updatePublished"
     \/ /\ Thrown("uploadMaster")
        /\ UNCHANGED s3
  /\ UNCHANGED << shotVars, poolVars, storeVars, entry, height, qi, told, written, record, notifs, workDir,
                  attempted, processedFiles, hlsPlaylists, qualities,
                  manifestLines, master >>

\* lines 142-161: prisma.video.update({status: 'PUBLISHED', thumbnail,
\* processedFiles, hlsPlaylist})
UpdatePublished ==
  /\ pc = "updatePublished"
  /\ told' = Append(told, "PUBLISHED")
  /\ \/ /\ Returns
        /\ written' = Append(written, "PUBLISHED")
        /\ record' = [status |-> "PUBLISHED", thumbnail |-> ThumbnailKey,
                      processedFiles |-> processedFiles, hlsPlaylist |-> MasterKey]
        /\ pc' = "indexVideo"
     \/ /\ Thrown("updatePublished")
        /\ UNCHANGED << written, record >>
  /\ UNCHANGED << shotVars, poolVars, storeVars, entry, height, qi, notifs, workDir, s3, attempted,
                  processedFiles, hlsPlaylists, qualities, manifestLines, master >>

\* lines 164-179: search.indexVideo(...)
IndexVideo ==
  /\ pc = "indexVideo"
  /\ \/ Returns /\ pc' = "unlinkInput"
     \/ Thrown("indexVideo")
  /\ UNCHANGED << shotVars, poolVars, storeVars, entry, height, qi, told, written, record, notifs, workDir, s3,
                  attempted, processedFiles, hlsPlaylists, qualities,
                  manifestLines, master >>

\* line 182: unlink(inputPath)
UnlinkInput ==
  /\ pc = "unlinkInput"
  /\ \/ Returns /\ pc' = "unlinkThumbnail"
     \/ Thrown("unlinkInput")
  /\ UNCHANGED << shotVars, poolVars, storeVars, entry, height, qi, told, written, record, notifs, workDir, s3,
                  attempted, processedFiles, hlsPlaylists, qualities,
                  manifestLines, master >>

\* line 185: unlink(thumbnailPath)
UnlinkThumbnail ==
  /\ pc = "unlinkThumbnail"
  /\ \/ /\ Returns
        /\ workDir' = workDir \ {ThumbnailFile}
        /\ pc' = "notify"
     \/ /\ Thrown("unlinkThumbnail")
        /\ UNCHANGED workDir
  /\ UNCHANGED << shotVars, poolVars, storeVars, entry, height, qi, told, written, record, notifs, s3,
                  attempted, processedFiles, hlsPlaylists, qualities,
                  manifestLines, master >>

\* lines 190-201: prisma.notification.create('Video processed successfully')
NotifySuccess ==
  /\ pc = "notify"
  /\ \/ /\ Returns
        /\ notifs' = Append(notifs, "success")
        /\ pc' = "done"
     \/ /\ Thrown("notify")
        /\ UNCHANGED notifs
  /\ UNCHANGED << shotVars, poolVars, storeVars, entry, height, qi, told, written, record, workDir, s3,
                  attempted, processedFiles, hlsPlaylists, qualities,
                  manifestLines, master >>

\* lines 203-210: catch: prisma.video.update({status: 'FAILED'}); a throw here
\* leaves processVideo.
CatchUpdateFailed ==
  /\ pc = "catch"
  /\ told' = Append(told, "FAILED")
  /\ \/ /\ Returns
        /\ written' = Append(written, "FAILED")
        /\ pc' = "catchFindUnique"
     \/ /\ Throws
        /\ pc' = "thrown"
        /\ UNCHANGED written
  /\ UNCHANGED << shotVars, poolVars, storeVars, entry, height, qi, record, notifs, workDir, s3, attempted,
                  processedFiles, hlsPlaylists, qualities, manifestLines, master >>

\* lines 213-214: prisma.video.findUnique: the row, no row, or a throw.
CatchFindUnique ==
  /\ pc = "catchFindUnique"
  /\ \/ Returns /\ pc' = "catchNotify"
     \/ Throws /\ pc' = "done"
     \/ Throws /\ pc' = "thrown"
  /\ UNCHANGED << shotVars, poolVars, storeVars, entry, height, qi, told, written, record, notifs, workDir, s3,
                  attempted, processedFiles, hlsPlaylists, qualities,
                  manifestLines, master >>

\* lines 215-226: prisma.notification.create('Video processing failed')
CatchNotify ==
  /\ pc = "catchNotify"
  /\ \/ /\ Returns
        /\ notifs' = Append(notifs, "failure")
        /\ pc' = "done"
     \/ /\ Throws
        /\ pc' = "thrown"
        /\ UNCHANGED notifs
  /\ UNCHANGED << shotVars, poolVars, storeVars, entry, height, qi, told, written, record, workDir, s3,
                  attempted, processedFiles, hlsPlaylists, qualities,
                  manifestLines, master >>

processVideo ==
  \/ UpdateProcessing \/ GetVideoMetadata \/ GenerateThumbnail
  \/ UploadThumbnail \/ NextQuality \/ TranscodeVideo \/ GenerateHLS
  \/ UploadMp4 \/ UploadHls \/ UnlinkMp4 \/ UnlinkHls
  \/ Mkdir \/ GenerateMasterHLS \/ UploadMaster
  \/ UpdatePublished \/ IndexVideo \/ UnlinkInput \/ UnlinkThumbnail
  \/ NotifySuccess \/ CatchUpdateFailed \/ CatchFindUnique \/ CatchNotify

\* ---------------------------- videoProcessing (socket.ts): processVideo

\* The one try block of processVideo (lines 418-507): every throw lands in
\* the catch block at line 507.
Alt_ThrowTo(step) == "alt_catch"

Alt_Thrown(step) ==
  /\ faults < MaxFaults
  /\ faults' = faults + 1
  /\ error' = step
  /\ pc' = Alt_ThrowTo(step)

\* lines 422-425: prisma.video.update({status: 'processing'})
Alt_UpdateProcessing ==
  /\ pc = "alt_updateProcessing"
  /\ told' = Append(told, "processing")
  /\ \/ /\ Returns
        /\ written' = Append(written, "processing")
        /\ pc' = "alt_mkdir"
     \/ /\ Alt_Thrown("alt_updateProcessing")
        /\ UNCHANGED written
  /\ UNCHANGED << shotVars, poolVars, storeVars, entry, height, qi, record, notifs, workDir, s3, attempted,
                  processedFiles, hlsPlaylists, qualities, manifestLines, master >>

\* lines 428-434: fs.mkdirSync(tempDir), fs.mkdirSync(outputDir)
Alt_Mkdir ==
  /\ pc = "alt_mkdir"
  /\ \/ Returns /\ pc' = "alt_getVideoMetadata"
     \/ Alt_Thrown("alt_mkdir")
  /\ UNCHANGED << shotVars, poolVars, storeVars, entry, height, qi, told, written, record, notifs, workDir, s3,
                  attempted, processedFiles, hlsPlaylists, qualities,
                  manifestLines, master >>

\* lines 440-441: getVideoMetadata(inputPath)
Alt_GetVideoMetadata ==
  /\ pc = "alt_getVideoMetadata"
  /\ \/ Returns /\ pc' = "alt_generateThumbnail"
     \/ Alt_Thrown("alt_getVideoMetadata")
  /\ UNCHANGED << shotVars, poolVars, storeVars, entry, height, qi, told, written, record, notifs, workDir, s3,
                  attempted, processedFiles, hlsPlaylists, qualities,
                  manifestLines, master >>

\* lines 444-445 with generateThumbnail (298-314)
Alt_GenerateThumbnail ==
  /\ pc = "alt_generateThumbnail"
  /\ \/ /\ Returns
        /\ workDir' = workDir \cup {ThumbnailFile}
        /\ pc' = "alt_uploadThumbnail"
     \/ /\ Alt_Thrown("alt_generateThumbnail")
        /\ UNCHANGED workDir
  /\ UNCHANGED << shotVars, poolVars, storeVars, entry, height, qi, told, written, record, notifs, s3,
                  attempted, processedFiles, hlsPlaylists, qualities,
                  manifestLines, master >>

\* lines 448-449 with uploadToS3 of s3.ts (videoProcessor.ts lines 367-398):
\* after the upload the local file is unlinked; a failing unlink is only warned.
Alt_UploadThumbnail ==
  /\ pc = "alt_uploadThumbnail"
  /\ \/ /\ Returns
        /\ s3' = s3 \cup {ThumbnailKey}
        /\ workDir' = workDir \ {ThumbnailFile}
        /\ pc' = "alt_transcodeVideo"
     \/ /\ Throws   \* fs.unlinkSync throws: warned (lines 387-391), the file stays
        /\ s3' = s3 \cup {ThumbnailKey}
        /\ pc' = "alt_transcodeVideo"
        /\ UNCHANGED workDir
     \/ /\ Alt_Thrown("alt_uploadThumbnail")
        /\ UNCHANGED << s3, workDir >>
  /\ UNCHANGED << shotVars, poolVars, storeVars, entry, height, qi, told, written, record, notifs,
                  attempted, processedFiles, hlsPlaylists, qualities,
                  manifestLines, master >>

\* line 452: transcodeVideo(outputDir, inputPath, cb).  The parameters of
\* transcodeVideo are (inputPath, outputDir, cb): its first step, line 347,
\* runs ffprobe on the freshly made directory outputDir, which rejects; the
\* catch at line 410 rethrows, and the catch at line 507 takes over.  Lines
\* 460-506 (upload of the renditions, 'published', rmSync) are never reached.
Alt_TranscodeVideoCall ==
  /\ pc = "alt_transcodeVideo"
  /\ error' = "alt_transcodeVideo"
  /\ pc' = Alt_ThrowTo("alt_transcodeVideo")
  /\ UNCHANGED << shotVars, poolVars, storeVars, entry, height, faults, qi, told, written, record, notifs,
                  workDir, s3, attempted, processedFiles, hlsPlaylists,
                  qualities, manifestLines, master >>

\* lines 507-527: prisma.video.update({status: 'failed'}), redis.setex, and
\* `throw error`: every path out of the catch block throws.
Alt_Catch ==
  /\ pc = "alt_catch"
  /\ told' = Append(told, "failed")
  /\ \/ /\ Returns
        /\ written' = Append(written, "failed")
     \/ /\ Throws
        /\ UNCHANGED written
  /\ pc' = "thrown"
  /\ UNCHANGED << shotVars, poolVars, storeVars, entry, height, qi, record, notifs, workDir, s3, attempted,
                  processedFiles, hlsPlaylists, qualities, manifestLines, master >>

Alt_processVideo ==
  \/ Alt_UpdateProcessing \/ Alt_Mkdir \/ Alt_GetVideoMetadata \/ Alt_GenerateThumbnail
  \/ Alt_UploadThumbnail \/ Alt_TranscodeVideoCall \/ Alt_Catch

\* --------------- videoProcessing (socket.ts): transcodeVideo, called with
\* a source file as inputPath

\* lines 347-354: getVideoMetadata(inputPath); a throw is rethrown at 410-413.
TV_GetVideoMetadata ==
  /\ pc = "tv_getVideoMetadata"
  /\ \/ Returns /\ pc' = "tv_loop"
     \/ Throws /\ pc' = "thrown"
  /\ UNCHANGED << shotVars, poolVars, storeVars, entry, height, qi, told, written, record, notifs, workDir, s3,
                  attempted, processedFiles, hlsPlaylists, qualities,
                  manifestLines, master >>

\* lines 357-403: one ffmpeg run per applicable quality (playlist and segments
\* in one run); a throw leaves the loop and the function (410-413).
TV_Encode ==
  /\ pc = "tv_loop"
  /\ qi <= Len(Alt_applicableQualities(height))
  /\ LET q == Alt_applicableQualities(height)[qi] IN
     /\ attempted' = Append(attempted, q.name)
     /\ \/ /\ Returns
           /\ workDir' = workDir \cup {HlsFile(q.name), SegmentFile(q.name)}
           /\ qualities' = Append(qualities, q.name)
           /\ manifestLines' = Append(manifestLines, Alt_StreamInf(q))
           /\ qi' = qi + 1
           /\ UNCHANGED pc
        \/ /\ Throws
           /\ \E partial \in BOOLEAN :
                workDir' = IF partial
                           THEN workDir \cup {HlsFile(q.name), SegmentFile(q.name)}
                           ELSE workDir
           /\ pc' = "thrown"
           /\ UNCHANGED << qi, qualities, manifestLines >>
  /\ UNCHANGED << shotVars, poolVars, storeVars, entry, height, told, written, record, notifs, s3,
                  processedFiles, hlsPlaylists, master >>

\* lines 405-413: fs.writeFileSync(manifestPath, manifestLines.join('\n'))
TV_WriteManifest ==
  /\ pc = "tv_loop"
  /\ qi > Len(Alt_applicableQualities(height))
  /\ \/ /\ Returns
        /\ master' = manifestLines
        /\ workDir' = workDir \cup {MasterFile}
        /\ pc' = "done"
     \/ /\ Throws
        /\ pc' = "thrown"
        /\ UNCHANGED << master, workDir >>
  /\ UNCHANGED << shotVars, poolVars, storeVars, entry, height, qi, told, written, record, notifs, s3,
                  attempted, processedFiles, hlsPlaylists, qualities,
                  manifestLines >>

Alt_transcodeVideo == TV_GetVideoMetadata \/ TV_Encode \/ TV_WriteManifest

Next == processVideo \/ Alt_processVideo \/ Alt_transcodeVideo

Spec == Init /\ [][Next]_vars

\* ------------------------------------------------------ reading the state

Range(seq) == {seq[i] : i \in 1..Len(seq)}

\* The call has returned or thrown.
Terminal == pc \in {"done", "thrown"}

IsPublished(st) == st \in {"PUBLISHED", "published"}
IsFailed(st) == st \in {"FAILED", "failed"}

\* The status the catalog holds.
CatalogStatus == IF written = << >> THEN "none" ELSE written[Len(written)]

\* The quality list the called function iterates over.
QualityList == IF entry = "videoProcessor" THEN VIDEO_QUALITIES ELSE Alt_VIDEO_QUALITIES

QualityNames == {Alt_VIDEO_QUALITIES[i].name : i \in 1..Len(Alt_VIDEO_QUALITIES)}

TargetHeight(n) == (CHOOSE q \in Range(QualityList) : q.name = n).height

\* A rendition succeeded: its mp4 and its playlist are in the object store.
Succeeded == {n \in QualityNames : Mp4Key(n) \in s3 /\ HlsKey(n) \in s3}

\* The per-quality loop of videoProcessor.ts has gone through every quality.
LoopOver == entry = "videoProcessor" /\ qi > Len(VIDEO_QUALITIES)

\* The encoding of the called function has ended without leaving the function.
EncodingOver == LoopOver \/ (entry = "transcodeVideo" /\ pc = "done")

\* processVideo has returned without entering its outer catch block.
ReturnedNormally == pc = "done" /\ error = "none"

\* The renditions of the called function's quality list that fit the source.
PlannedNames ==
  LET sel == SelectSeq(QualityList, LAMBDA q : q.height <= height)
  IN [i \in 1..Len(sel) |-> sel[i].name]

Ascending(m) == \A i, j \in 1..Len(m) : i < j => m[i].bandwidth < m[j].bandwidth

\* The standard ladder of the specification (section 3).
StandardTiers ==
  << [name |-> "144p", height |-> 144], [name |-> "240p", height |-> 240],
     [name |-> "360p", height |-> 360], [name |-> "480p", height |-> 480],
     [name |-> "720p", height |-> 720], [name |-> "1080p", height |-> 1080],
     [name |-> "1440p", height |-> 1440], [name |-> "2160p", height |-> 2160] >>

StandardLadder(h) ==
  LET sel == SelectSeq(StandardTiers, LAMBDA t : t.height <= h)
  IN [i \in 1..Len(sel) |-> sel[i].name]

\* The renditions the called function produced: uploaded by processVideo,
\* pushed to qualities[] by transcodeVideo (socket.ts).
Produced == IF entry = "videoProcessor" THEN Succeeded ELSE Range(qualities)

\* The playlist references of a manifest, in order.
ManifestRefs(m) == [i \in 1..Len(m) |-> m[i].ref]

\* A master manifest has been written.
MasterWritten == master # NoManifest

\* ----------------------------------------------------------------- claims

\* C1: when every rendition attempted in the per-quality loop of processVideo
\* fails, the catalog is never set to PUBLISHED and the job ends FAILED.
C1_AllRenditionsFailedIsFailed ==
  (LoopOver /\ attempted # << >> /\ Succeeded = {})
    => /\ "PUBLISHED" \notin Range(written)
       /\ (Terminal => CatalogStatus = "FAILED")

\* C2: a job that has ended has produced exactly one notification: a success
\* notification when the catalog holds PUBLISHED, a failure notification
\* otherwise.
C2_ExactlyOneNotification ==
  (entry = "videoProcessor" /\ Terminal)
    => /\ Len(notifs) = 1
       /\ notifs[1] = (IF CatalogStatus = "PUBLISHED" THEN "success" ELSE "failure")

\* C3: after a job has ended, no file remains in its working directory.
C3_WorkDirEmptyAtEnd ==
  (entry = "videoProcessor" /\ Terminal) => workDir = {}

\* C4: a failing rendition does not abort the encoding: once the call has
\* ended after starting the encodes, every planned rendition was attempted.
C4_FanOutNotFailFast ==
  (Terminal /\ attempted # << >>) => attempted = PlannedNames

\* C5: the job is published iff at least one rendition succeeded, and the
\* renditions stored with PUBLISHED are exactly those that succeeded; one
\* success out of three planned renditions publishes exactly one entry.
C5_PublishedIffSomeRenditionSucceeded ==
  entry = "videoProcessor" =>
    /\ "PUBLISHED" \in Range(written)
         => (Succeeded # {} /\ record.processedFiles = Succeeded)
    /\ (ReturnedNormally /\ Succeeded # {})
         => (CatalogStatus = "PUBLISHED" /\ record.processedFiles = Succeeded)
    /\ (ReturnedNormally /\ Len(attempted) = 3 /\ Cardinality(Succeeded) = 1)
         => (CatalogStatus = "PUBLISHED" /\ Cardinality(record.processedFiles) = 1)

\* C6: when probing or thumbnail extraction throws, no encode is ever
\* started, the catalog is never told PUBLISHED, and the job ends with the
\* catalog told FAILED.
C6_ProbeOrThumbnailFailureIsFatal ==
  error \in {"getVideoMetadata", "generateThumbnail",
             "alt_getVideoMetadata", "alt_generateThumbnail"}
    => /\ attempted = << >>
       /\ \A i \in 1..Len(told) : ~IsPublished(told[i])
       /\ Terminal => \E i \in 1..Len(told) : IsFailed(told[i])

\* C6 witness: a job of the queue worker whose thumbnail extraction threw on
\* a 1080 source has ended.
C6_Witness ==
  /\ entry = "videoProcessor" /\ height = 1080
  /\ error = "generateThumbnail" /\ Terminal

C8_LadderIsStandardTiersFiltered ==
  (EncodingOver /\ height >= 144) => attempted = StandardLadder(height)

\* C9: a source below the lowest tier gets exactly one fallback rendition at
\* or below its height.
C9_FallbackTierForTinySource ==
  (EncodingOver /\ height < 144)
    => /\ Len(attempted) = 1
       /\ \A i \in 1..Len(attempted) :
            \A q \in Range(QualityList) : q.name = attempted[i] => q.height <= height

\* C10: a 1080 source on which every call succeeds ends PUBLISHED with six
\* renditions and a master manifest of six entries in ascending bitrate order.
C10_Source1080PublishesSix ==
  (entry = "videoProcessor" /\ height = 1080 /\ faults = 0 /\ Terminal)
    => /\ CatalogStatus = "PUBLISHED"
       /\ record.processedFiles = {"144p", "240p", "360p", "480p", "720p", "1080p"}
       /\ Len(master) = 6
       /\ Ascending(master)

C12_AssemblerNeverGetsEmptyList ==
  (entry = "videoProcessor" /\ MasterWritten) => Len(master) > 0

\* ------------------------------------------- uploadToS3 called on its own
\*
\* The artifact publisher outside a job: the local files and the bucket are
\* the state, and every call of either uploadToS3 is recorded with the bucket
\* it left behind.

\* At most this many calls of uploadToS3 in one run.
MaxCalls == 2

\* What a path without a file, or a key without an object, maps to.
Absent == [absent |-> TRUE]
Paths == {ThumbnailFile, MasterFile}
Keys == {ThumbnailKey, MasterKey}
\* The contents a scratch file can have.
Bytes == {[bytes |-> << "x" >>], [bytes |-> << "y" >>]}
\* The content types the callers of uploadToS3 (s3.ts) pass.
ContentTypes == {"image/jpeg", "application/vnd.apple.mpegurl"}

\* videoProcessor.ts, lines 320-331: getContentType(filePath), by extension.
getContentType(path) ==
  CASE path[2] = "mp4"  -> "video/mp4"
    [] path[2] = "m3u8" -> "application/vnd.apple.mpegurl"
    [] path[2] = "ts"   -> "video/mp2t"
    [] path[2] = "jpg"  -> "image/jpeg"
    [] path[2] = "png"  -> "image/png"
    [] OTHER            -> "application/octet-stream"

\* Mutant of PutObject: the body is appended to the object already stored.
PutObject_Appending(objs, key, obj) ==
  [objs EXCEPT ![key] =
     IF objs[key] = Absent THEN obj
     ELSE [obj EXCEPT !.body = objs[key].body \o obj.body]]

\* videoProcessor.ts, lines 312 and 384: s3.upload(params).promise() stores
\* the object under Key, replacing what was there.
PutObject(objs, key, obj) == [objs EXCEPT ![key] = obj]

\* No call of processVideo or transcodeVideo is running.
NoJob ==
  /\ entry = "none"
  /\ pc = "none"
  /\ height = 0
  /\ faults = 0
  /\ error = "none"
  /\ qi = 1
  /\ told = << >>
  /\ written = << >>
  /\ record = NoRecord
  /\ notifs = << >>
  /\ workDir = {}
  /\ s3 = {}
  /\ attempted = << >>
  /\ processedFiles = {}
  /\ hlsPlaylists = << >>
  /\ qualities = << >>
  /\ manifestLines = << >>
  /\ master = NoManifest

PublisherInit ==
  /\ NoJob
  /\ NoPool
  /\ NoThumbnail
  /\ files \in [Paths -> Bytes \cup {Absent}]
  /\ objects = [k \in Keys |-> Absent]
  /\ calls = << >>

\* The record of one completed call.
Call(fn, path, key, ct, bytes, outcome, after) ==
  [fn |-> fn, path |-> path, key |-> key, contentType |-> ct, bytes |-> bytes,
   outcome |-> outcome, after |-> after]

\* A scratch file is written (ffmpeg, generateMasterHLS) or written again.
WriteFile ==
  /\ \E p \in Paths, b \in Bytes :
       /\ files[p] # b
       /\ files' = [files EXCEPT ![p] = b]
  /\ UNCHANGED << shotVars, jobVars, poolVars, objects, calls >>

\* videoProcessor.ts, lines 301-318: uploadToS3(filePath, key).  readFileSync
\* throws when the file is missing, s3.upload may reject; both are logged and
\* rethrown.  The local file is left alone.
uploadToS3 ==
  /\ Len(calls) < MaxCalls
  /\ \E p \in Paths, k \in Keys :
       LET ct == getContentType(p) IN
       \/ /\ files[p] = Absent
          /\ calls' = Append(calls, Call("videoProcessor", p, k, ct, Absent, "thrown", objects))
          /\ UNCHANGED objects
       \/ /\ files[p] # Absent
          /\ calls' = Append(calls, Call("videoProcessor", p, k, ct, files[p], "thrown", objects))
          /\ UNCHANGED objects
       \/ /\ files[p] # Absent
          /\ objects' = PutObject(objects, k, [body |-> files[p].bytes, contentType |-> ct,
                                               acl |-> "private"])
          /\ calls' = Append(calls, Call("videoProcessor", p, k, ct, files[p], "returned", objects'))
  /\ UNCHANGED << shotVars, jobVars, poolVars, files >>

\* videoProcessor.ts, lines 367-398 (s3.ts): uploadToS3(filePath, key,
\* contentType).  As above, with ACL public-read; after the upload the local
\* file is unlinked, and a failing unlink is only warned about.
S3_uploadToS3 ==
  /\ Len(calls) < MaxCalls
  /\ \E p \in Paths, k \in Keys, ct \in ContentTypes :
       \/ /\ files[p] = Absent
          /\ calls' = Append(calls, Call("s3", p, k, ct, Absent, "thrown", objects))
          /\ UNCHANGED << objects, files >>
       \/ /\ files[p] # Absent
          /\ calls' = Append(calls, Call("s3", p, k, ct, files[p], "thrown", objects))
          /\ UNCHANGED << objects, files >>
       \/ /\ files[p] # Absent
          /\ objects' = PutObject(objects, k, [body |-> files[p].bytes, contentType |-> ct,
                                               acl |-> "public-read"])
          /\ calls' = Append(calls, Call("s3", p, k, ct, files[p], "returned", objects'))
          /\ \/ files' = [files EXCEPT ![p] = Absent]
             \/ UNCHANGED files
  /\ UNCHANGED << shotVars, jobVars, poolVars >>

PublisherNext == WriteFile \/ uploadToS3 \/ S3_uploadToS3

PublisherSpec == PublisherInit /\ [][PublisherNext]_vars

\* Call b repeats call a: the same function, key and content type, and the
\* same bytes in the file (or the file gone since a removed it).
Repeats(a, b) ==
  /\ a.outcome = "returned"
  /\ b.fn = a.fn /\ b.key = a.key /\ b.contentType = a.contentType
  /\ b.bytes \in {a.bytes, Absent}

MaxTicks == 2

\* At most this many calls of addVideoToQueue in one run.
MaxAdds == 2

Jobs == 1..MaxAdds
Invocations == 1..MaxTicks
\* line 54: lPop gave null, `if (job)` is false.
NoJobPopped == 0

WorkerInit ==
  /\ NoJob
  /\ NoStore
  /\ NoThumbnail
  /\ queue = << >>
  /\ adds = 0
  /\ ticks = 0
  /\ inv = [i \in Invocations |-> [pc |-> "idle", job |-> NoJobPopped]]
  /\ status = [j \in Jobs |-> "UPLOADING"]
  /\ dispatched = << >>

\* Invocation i moves to pc p.
Goto(i, p) == inv' = [inv EXCEPT ![i].pc = p]

\* Mutant of addVideoToQueue: the job is pushed at the head of the list.
addVideoToQueue_AtHead ==
  /\ adds < MaxAdds
  /\ adds' = adds + 1
  /\ \/ queue' = << adds + 1 >> \o queue
     \/ UNCHANGED queue
  /\ UNCHANGED << shotVars, jobVars, storeVars, ticks, inv, status, dispatched >>

\* lines 63-70: addVideoToQueue: rPush at the tail; a throw of rPush is
\* logged and the job is not queued.
addVideoToQueue ==
  /\ adds < MaxAdds
  /\ adds' = adds + 1
  /\ \/ queue' = Append(queue, adds + 1)
     \/ UNCHANGED queue
  /\ UNCHANGED << shotVars, jobVars, storeVars, ticks, inv, status, dispatched >>

\* lines 44 and 47: processVideoQueue is called, by startVideoProcessor or by
\* the timer; it runs up to its first await (line 52).
startVideoProcessor ==
  /\ ticks < MaxTicks
  /\ ticks' = ticks + 1
  /\ Goto(ticks + 1, "lPop")
  /\ UNCHANGED << shotVars, jobVars, storeVars, queue, adds, status, dispatched >>

\* Mutant of processVideoQueue: the head of the list is read, not removed.
processVideoQueue_Peek(i) ==
  /\ inv[i].pc = "lPop"
  /\ \/ /\ queue = << >>
        /\ Goto(i, "returned")
        /\ UNCHANGED dispatched
     \/ /\ queue # << >>
        /\ dispatched' = Append(dispatched, Head(queue))
        /\ inv' = [inv EXCEPT ![i] = [pc |-> "updateProcessing", job |-> Head(queue)]]
     \/ /\ Goto(i, "logged")
        /\ UNCHANGED dispatched
  /\ UNCHANGED << shotVars, jobVars, storeVars, queue, adds, ticks, status >>

\* lines 52-56 and 72-82: lPop returns null (nothing to do), or the head of
\* the list, which is parsed and handed to processVideo, which runs up to its
\* first await, the PROCESSING update; or lPop throws (caught at line 58).
processVideoQueue(i) ==
  /\ inv[i].pc = "lPop"
  /\ \/ /\ queue = << >>
        /\ Goto(i, "returned")
        /\ UNCHANGED << queue, dispatched >>
     \/ /\ queue # << >>
        /\ queue' = Tail(queue)
        /\ dispatched' = Append(dispatched, Head(queue))
        /\ inv' = [inv EXCEPT ![i] = [pc |-> "updateProcessing", job |-> Head(queue)]]
     \/ /\ Goto(i, "logged")
        /\ UNCHANGED << queue, dispatched >>
  /\ UNCHANGED << shotVars, jobVars, storeVars, adds, ticks, status >>

\* lines 79-82: prisma.video.update({status: 'PROCESSING'}) returns or throws
\* into the catch block of processVideo.
Q_UpdateProcessing(i) ==
  /\ inv[i].pc = "updateProcessing"
  /\ \/ /\ status' = [status EXCEPT ![inv[i].job] = "PROCESSING"]
        /\ Goto(i, "body")
     \/ /\ Goto(i, "catch")
        /\ UNCHANGED status
  /\ UNCHANGED << shotVars, jobVars, storeVars, queue, adds, ticks, dispatched >>

\* lines 84-161: probing up to prisma.video.update({status: 'PUBLISHED'}): the
\* update is reached and returns, or a step on the way (or the update) throws
\* into the catch block.
Q_UpdatePublished(i) ==
  /\ inv[i].pc = "body"
  /\ \/ /\ status' = [status EXCEPT ![inv[i].job] = "PUBLISHED"]
        /\ Goto(i, "published")
     \/ /\ Goto(i, "catch")
        /\ UNCHANGED status
  /\ UNCHANGED << shotVars, jobVars, storeVars, queue, adds, ticks, dispatched >>

\* lines 163-201: indexing, unlinks and the success notification: processVideo
\* returns, or one of them throws into the catch block.
Q_AfterPublished(i) ==
  /\ inv[i].pc = "published"
  /\ \/ Goto(i, "returned")
     \/ Goto(i, "catch")
  /\ UNCHANGED << shotVars, jobVars, storeVars, queue, adds, ticks, status, dispatched >>

\* Mutant of Q_CatchUpdateFailed: the failed job is pushed back on the list.
Q_CatchUpdateFailed_Requeue(i) ==
  /\ inv[i].pc = "catch"
  /\ \/ /\ status' = [status EXCEPT ![inv[i].job] = "FAILED"]
        /\ queue' = Append(queue, inv[i].job)
        /\ Goto(i, "catchNotify")
     \/ /\ Goto(i, "logged")
        /\ UNCHANGED << status, queue >>
  /\ UNCHANGED << shotVars, jobVars, storeVars, adds, ticks, dispatched >>

\* lines 203-210 and 58-60: prisma.video.update({status: 'FAILED'}) returns,
\* or throws out of processVideo into the catch of processVideoQueue, which
\* logs the error and returns.
Q_CatchUpdateFailed(i) ==
  /\ inv[i].pc = "catch"
  /\ \/ /\ status' = [status EXCEPT ![inv[i].job] = "FAILED"]
        /\ Goto(i, "catchNotify")
     \/ /\ Goto(i, "logged")
        /\ UNCHANGED status
  /\ UNCHANGED << shotVars, jobVars, storeVars, queue, adds, ticks, dispatched >>

\* lines 213-228 and 58-60: findUnique and the failure notification return,
\* or one of them throws out of processVideo and is logged by processVideoQueue.
Q_CatchNotify(i) ==
  /\ inv[i].pc = "catchNotify"
  /\ \/ Goto(i, "returned")
     \/ Goto(i, "logged")
  /\ UNCHANGED << shotVars, jobVars, storeVars, queue, adds, ticks, status, dispatched >>

WorkerNext ==
  \/ addVideoToQueue
  \/ startVideoProcessor
  \/ \E i \in Invocations :
       \/ processVideoQueue(i)
       \/ Q_UpdateProcessing(i)
       \/ Q_UpdatePublished(i)
       \/ Q_AfterPublished(i)
       \/ Q_CatchUpdateFailed(i)
       \/ Q_CatchNotify(i)

WorkerSpec == WorkerInit /\ [][WorkerNext]_vars

\* The invocations that are inside processVideo.
InFlight ==
  {i \in Invocations : inv[i].pc \in {"updateProcessing", "body", "published",
                                      "catch", "catchNotify"}}

\* C14: when an error of a dequeued job reaches the catch of processVideoQueue
\* and is logged there, the catalog holds FAILED for that job.
C14_EscapedErrorIsRecordedFailed ==
  \A i \in Invocations :
    (inv[i].pc = "logged" /\ inv[i].job # NoJobPopped)
      => status[inv[i].job] = "FAILED"

\* C15: the jobs processed concurrently stay within a limit N whatever the
\* timer does: once the timer has fired again, the jobs in flight are fewer
\* than the invocations of processVideoQueue started so far.
C15_BoundedPool ==
  ticks > 1 => Cardinality(InFlight) < ticks

\* ------------------------------------------ an encoder that never finishes
\*
\* The promises around ffmpeg settle on 'end' or on 'error' only; no timer
\* rejects them and nothing kills the process.  An ffmpeg run that emits
\* neither leaves the await pending for good.

\* videoProcessor.ts, lines 110-114 with transcodeVideo (254-271): the run for
\* the quality at hand emits neither 'end' nor 'error'.
TranscodeVideoHangs ==
  /\ pc = "loop"
  /\ qi <= Len(VIDEO_QUALITIES)
  /\ ~SkipQuality(height, VIDEO_QUALITIES[qi])
  /\ attempted' = Append(attempted, VIDEO_QUALITIES[qi].name)
  /\ pc' = "hung"
  /\ UNCHANGED << shotVars, poolVars, storeVars, entry, height, faults, error, qi, told,
                  written, record, notifs, workDir, s3, processedFiles,
                  hlsPlaylists, qualities, manifestLines, master >>

\* videoProcessor.ts, line 117 with generateHLS (273-286): likewise.
GenerateHLSHangs ==
  /\ pc = "generateHLS"
  /\ pc' = "hung"
  /\ UNCHANGED << shotVars, poolVars, storeVars, entry, height, faults, error, qi, told,
                  written, record, notifs, workDir, s3, attempted,
                  processedFiles, hlsPlaylists, qualities, manifestLines, master >>

\* socket.ts, lines 360-389 (transcodeVideo): likewise.
TV_EncodeHangs ==
  /\ pc = "tv_loop"
  /\ qi <= Len(Alt_applicableQualities(height))
  /\ attempted' = Append(attempted, Alt_applicableQualities(height)[qi].name)
  /\ pc' = "hung"
  /\ UNCHANGED << shotVars, poolVars, storeVars, entry, height, faults, error, qi, told,
                  written, record, notifs, workDir, s3, processedFiles,
                  hlsPlaylists, qualities, manifestLines, master >>

HangNext == Next \/ TranscodeVideoHangs \/ GenerateHLSHangs \/ TV_EncodeHangs

\* The event loop runs a continuation whenever the call it awaits has settled:
\* a call that can take a step does.
HangSpec == Init /\ [][HangNext]_vars /\ WF_vars(HangNext)

\* C16: every call reaches a terminal outcome even when an encoder hangs: the
\* hanging encode is cut off and the call returns or throws in the end.
C16_EveryJobEnds == <>Terminal

\* C17: a throw of the success notification does not change the outcome: the
\* catalog, told PUBLISHED before, is not told FAILED afterwards and holds
\* PUBLISHED.
C17_NotifierFailureKeepsPublished ==
  (entry = "videoProcessor" /\ error = "notify")
    => /\ "FAILED" \notin Range(told)
       /\ CatalogStatus = "PUBLISHED"

\* C18: no artifact is uploaded before the encodes are over and the master
\* manifest is assembled: while the object store holds an object of the job,
\* the master manifest has been written.
C18_NoUploadBeforeAssembly ==
  (entry = "videoProcessor" /\ s3 # {}) => MasterWritten

\* C19: once the outcome is in the catalog, scratch files are released only
\* after the notification has been created.
C19_ScratchReleasedAfterNotification ==
  [][ (/\ entry = "videoProcessor"
       /\ \E i \in 1..Len(written) : written[i] \in {"PUBLISHED", "FAILED"}
       /\ workDir' # workDir /\ workDir' \subseteq workDir)
      => notifs # << >> ]_vars

C21_RenditionWithFailedUploadIsExcluded ==
  entry = "videoProcessor" =>
    /\ processedFiles \subseteq Succeeded
    /\ MasterWritten
         => \A i \in 1..Len(master) :
              \E n \in Succeeded : master[i].ref = HlsFile(n)
    /\ record # NoRecord => record.processedFiles \subseteq Succeeded
    /\ LoopOver => attempted = PlannedNames

\* C21 witness: the queue worker on a 400 source; the mp4 of 144p was
\* uploaded and the upload of its playlist threw; 360p was processed after
\* it and is the only entry of the master manifest.
C21_Witness ==
  /\ entry = "videoProcessor" /\ height = 400 /\ MasterWritten
  /\ Mp4Key("144p") \in s3 /\ HlsKey("144p") \notin s3
  /\ Succeeded = {"360p"}
  /\ ManifestRefs(master) = << HlsFile("360p") >>

\* The call of uploadToS3 completed by this step.
LastCall == calls'[Len(calls')]

\* C22: a call of uploadToS3 that returns has removed the local file, and a
\* call that throws has left every local file as it was.
C22_FileReleasedOnSuccessKeptOnFailure ==
  [][ calls' # calls
        => /\ LastCall.outcome = "returned" => files'[LastCall.path] = Absent
           /\ LastCall.outcome = "thrown" => files' = files ]_vars

\* How often job j occurs in a sequence of jobs.
Occurrences(seq, j) == Cardinality({k \in 1..Len(seq) : seq[k] = j})

\* processVideo has ended for job j, by returning or by throwing.
Ended(j) ==
  \E i \in Invocations : inv[i].job = j /\ inv[i].pc \in {"returned", "logged"}

\* C23: a job that has ended without PUBLISHED is not on the list again and
\* was handed to processVideo once; the list only ever holds what
\* addVideoToQueue pushed.
C23_NoAutomaticRetry ==
  /\ \A j \in Jobs :
       (Ended(j) /\ status[j] # "PUBLISHED")
         => /\ j \notin Range(queue)
            /\ Occurrences(dispatched, j) = 1
  /\ Len(queue) + Len(dispatched) <= adds

\* C23 witness: job 1 ended FAILED, and a later invocation of
\* processVideoQueue found the list empty.
C23_Witness ==
  /\ adds = 1 /\ status[1] = "FAILED"
  /\ inv[1] = [pc |-> "returned", job |-> 1]
  /\ inv[2] = [pc |-> "returned", job |-> NoJobPopped]

\* ------------------------------------------- the timer that keeps firing
\*
\* setInterval has no end: processVideoQueue is called again every 30 seconds.
\* An invocation that has ended leaves nothing behind, so its record is used
\* again for the next one.

\* line 47: the timer calls processVideoQueue once more.
TimerFires ==
  /\ ticks = MaxTicks
  /\ \E i \in Invocations :
       /\ inv[i].pc \in {"returned", "logged"}
       /\ inv' = [inv EXCEPT ![i] = [pc |-> "lPop", job |-> NoJobPopped]]
  /\ UNCHANGED << shotVars, jobVars, storeVars, queue, adds, ticks, status, dispatched >>

\* lines 52-56: lPop returns the head of the list to some invocation.
PopsJob == \E i \in Invocations : processVideoQueue(i) /\ dispatched' # dispatched

TimerNext == WorkerNext \/ TimerFires

\* The timer fires whenever it may, every pending await settles, and redis
\* does not fail every lPop for ever.  addVideoToQueue is called from outside
\* and need not be called at all.
TimerSpec ==
  /\ WorkerInit
  /\ [][TimerNext]_vars
  /\ WF_vars(startVideoProcessor)
  /\ WF_vars(TimerFires)
  /\ \A i \in Invocations :
       WF_vars(\/ processVideoQueue(i) \/ Q_UpdateProcessing(i)
               \/ Q_UpdatePublished(i) \/ Q_AfterPublished(i)
               \/ Q_CatchUpdateFailed(i) \/ Q_CatchNotify(i))
  /\ SF_vars(PopsJob)

InAddOrder(seq) == \A k, l \in 1..Len(seq) : k < l => seq[k] < seq[l]

\* C30: jobs are handed to processVideo in the order in which they were
\* pushed, the jobs still on the list come after them in that order, and the
\* invocations of processVideoQueue have removed at most one job each.
C30_FifoDispatch ==
  /\ InAddOrder(dispatched \o queue)
  /\ Len(dispatched) <= ticks

\* C30 witness: jobs 1 and 2 were both on the list before the first pop, and
\* two invocations took them in that order.
C30_Witness ==
  /\ adds = 2 /\ ticks = 2
  /\ dispatched = << 1, 2 >>
  /\ inv[1].job = 1 /\ inv[2].job = 2

\* ------------------------------------------------- the thumbnail generator

\* Longest source duration considered, in seconds.
MaxDuration == 40

\* ffprobe reports no duration for the source (format.duration is 'N/A').
UnknownDuration == [unknown |-> TRUE]

Durations == [seconds : 0..MaxDuration] \cup {UnknownDuration}

\* Offsets are kept in tenths of a second, so that a tenth of a whole number
\* of seconds is exact.
Tenths(seconds) == seconds * 10

\* fluent-ffmpeg, screenshots(): a timestamp 'p%' is taken at
\* duration * p / 100; a number is taken as that many seconds.
PercentOf(seconds, percent) == (Tenths(seconds) * percent) \div 100

ThumbnailInit ==
  /\ NoJob
  /\ NoPool
  /\ NoStore
  /\ duration \in Durations
  /\ shot = NoShot

\* videoProcessor.ts, lines 240-252: generateThumbnail asks for the frame at
\* '10%'; screenshots() rejects a percentage when the duration is unknown.
generateThumbnail ==
  /\ shot = NoShot
  /\ shot' = IF duration = UnknownDuration
               THEN [by |-> "videoProcessor", outcome |-> "thrown"]
               ELSE [by |-> "videoProcessor", outcome |-> "returned",
                     offset |-> PercentOf(duration.seconds, 10)]
  /\ UNCHANGED << jobVars, poolVars, storeVars, duration >>

\* socket.ts, lines 298-314, called at line 445 without a third argument:
\* timeOffset is its default of 10 seconds, whatever the source.
Alt_generateThumbnail ==
  /\ shot = NoShot
  /\ shot' = [by |-> "videoProcessing", outcome |-> "returned",
              offset |-> Tenths(10)]
  /\ UNCHANGED << jobVars, poolVars, storeVars, duration >>

ThumbnailNext == generateThumbnail \/ Alt_generateThumbnail

ThumbnailSpec == ThumbnailInit /\ [][ThumbnailNext]_vars

\* The offset the rule gives: a tenth of the duration, or 0 when the
\* duration is 0 or unknown.
ExpectedOffset ==
  IF duration = UnknownDuration THEN 0 ELSE PercentOf(duration.seconds, 10)

\* C25: the thumbnail of the socket.ts pipeline is requested at a tenth of
\* the duration (0 for a duration of 0 or unknown), which lies before the end
\* of every source of positive duration.
C25_ThumbnailAtTenthOfDuration ==
  (shot # NoShot /\ shot.by = "videoProcessing") =>
    /\ shot.offset = ExpectedOffset
    /\ (duration # UnknownDuration /\ duration.seconds > 0)
         => shot.offset < Tenths(duration.seconds)
\* C26: the catalog writes of one job of the queue worker go forward only:
\* PROCESSING is written before any other status, at most one of PUBLISHED
\* and FAILED is written, and no FAILED is written after a PUBLISHED.
C26_StatusMovesForwardOnly ==
  entry = "videoProcessor" =>
    /\ \A i \in 1..Len(written) : written[i] = "PROCESSING" => i = 1
    /\ Cardinality({i \in 1..Len(written) :
                      written[i] \in {"PUBLISHED", "FAILED"}}) <= 1
    /\ \A i, j \in 1..Len(written) :
         (i < j /\ written[i] = "PUBLISHED") => written[j] # "FAILED"

\* ------------------------------------------------ every external call ends

\* One call of processVideo in which every await settles: each step that can
\* be taken is taken in the end.
SettlingSpec == Init /\ [][Next]_vars /\ WF_vars(Next)

\* C27: a job of the queue worker leaves PROCESSING: from some point on the
\* catalog holds PUBLISHED or FAILED for good.
C27_JobLeavesProcessing ==
  entry = "videoProcessor" => <>[](CatalogStatus \in {"PUBLISHED", "FAILED"})

\* C28: once the catalog has stored PUBLISHED for a job of the queue worker,
\* the thumbnail and the master manifest are in the object store (their
\* uploads returned before the write, which uploads nothing itself), and the
\* thumbnail and hlsPlaylist fields stored are the locators of those objects.
C28_PublishedHasThumbnailAndMaster ==
  (entry = "videoProcessor" /\ "PUBLISHED" \in Range(written))
    => /\ ThumbnailKey \in s3
       /\ MasterKey \in s3
       /\ MasterWritten
       /\ record.thumbnail = ThumbnailKey
       /\ record.hlsPlaylist = MasterKey

\* C28 witness: the queue worker on a 1080 source with no step throwing: the
\* PUBLISHED write has just returned and the catalog holds it.
C28_Witness ==
  /\ entry = "videoProcessor" /\ height = 1080 /\ faults = 0
  /\ pc = "indexVideo"
  /\ CatalogStatus = "PUBLISHED"
  /\ record.status = "PUBLISHED"

\* A relative reference resolved against the key of the manifest that holds
\* it: the manifest's prefix followed by the file referred to.
Resolve(baseKey, ref) == << baseKey[1] >> \o ref

\* The name of the rendition a playlist reference is for.
RenditionOf(ref) == ref[1]

\* The playlist references of the master manifest resolve to the keys under
\* which the renditions' playlists were uploaded.
PlaylistsResolve ==
  \A i \in 1..Len(master) :
    /\ Resolve(MasterKey, master[i].ref) = HlsKey(RenditionOf(master[i].ref))
    /\ Resolve(MasterKey, master[i].ref) \in s3

\* The segment files the renditions' playlists refer to are in the store.
SegmentsResolve ==
  \A i \in 1..Len(master) :
    LET n == RenditionOf(master[i].ref)
    IN Resolve(HlsKey(n), SegmentFile(n)) \in s3

\* C29: every entry of a master manifest uploaded by the queue worker
\* resolves to uploaded objects: the rendition's playlist, and the media
\* segments that playlist refers to.
C29_ManifestEntriesResolve ==
  (entry = "videoProcessor" /\ MasterKey \in s3)
    => (PlaylistsResolve /\ SegmentsResolve)

====
